---- MODULE Spec2Model ----
(***************************************************************************)
(* Model of src/scraper.py: the WebScraper harvest of one target (browser  *)
(* acquisition, first navigation, page-count discovery, the page loop with *)
(* its periodic save and its delay, the release of the browser), the CSV   *)
(* writer and the page counter.  The browser driver, the file system and   *)
(* the clock are collaborators: their outcomes are inputs of the actions.  *)
(***************************************************************************)
EXTENDS Integers, Sequences, FiniteSets, TLC

(* ------------------------------ bounds --------------------------------- *)
\* largest page number a pagination anchor of the loaded page may carry
MaxPageNo == 6
\* largest number of pagination anchors on the loaded page
MaxAnchors == 2
\* number of .company-item elements on a page that lists any
MaxItems == 2
\* largest max_pages argument passed to run
MaxArg == 2
\* largest number of scrapers of one manager
MaxScrapers == 2
\* largest page number of the listings the scrapers of a manager visit
ManagerPages == 2
\* largest number of save_to_csv calls made on one file (the writer as a function)
MaxFlushes == 3
\* the flush-cadence scenario: pages of the listing and items per page
CadencePages == 12
CadenceItems == 4

(* --------------------------- program constants ------------------------- *)
\* scraper.py:163  "page % 5 == 0"
SaveEvery == 5
\* base of int() applied to the regex group, scraper.py:58
Ten == 10

(* ------------------------------ variables ------------------------------ *)
VARIABLES
    mgr,          \* the caller of the runs: [mode, pc, cur]  (ScraperManager.run)
    site,         \* the collaborators: [hrefs, faults, items], what pages hold and what may fail
    target,       \* per scraper: [url, output_file]   (WebScraper.__init__)
    fs,           \* the file system: path -> [exists, lines]
    pc,           \* per scraper: position of the run coroutine
    browser,      \* per scraper: playwright, browser, context, page, each "none" | "open" | "closed"
    closes,       \* per scraper: number of completed close() calls
    max_pages,    \* per scraper: the argument of run (None is NoMax)
    total_pages,  \* per scraper: local total_pages of run
    page,         \* per scraper: loop variable of run
    all_data,     \* per scraper: local all_data of run
    calls,        \* per scraper: the calls made on the collaborators, in order
    input,        \* argument of the pure function under check (function specifications)
    output        \* its result, <<>> before it is applied

vars == <<mgr, site, target, fs, pc, browser, closes, max_pages, total_pages, page,
          all_data, calls, input, output>>

Scrapers == DOMAIN pc

\* run called on a WebScraper directly, with no ScraperManager
Direct == [mode |-> "direct", pc |-> "Idle", cur |-> 0]

\* max_pages=None
NoMax == -1

(* ------------------------------- hrefs --------------------------------- *)
\* An href is a sequence of tokens: the literal "?page=", digits, other text.
DigitChar == <<"0", "1", "2", "3", "4", "5", "6", "7", "8", "9">>

IsDigit(c) == \E d \in 1..Len(DigitChar) : DigitChar[d] = c

DigitVal(c) == (CHOOSE d \in 1..Len(DigitChar) : DigitChar[d] = c) - 1

\* str(n), as the site renders a page number into an href
RECURSIVE Str(_)
Str(n) == IF n < Ten THEN <<DigitChar[n + 1]>>
          ELSE Str(n \div Ten) \o <<DigitChar[(n % Ten) + 1]>>

\* int(s) of a run of digits
RECURSIVE ToInt(_)
ToInt(ds) == IF ds = <<>> THEN 0
             ELSE ToInt(SubSeq(ds, 1, Len(ds) - 1)) * Ten + DigitVal(ds[Len(ds)])

\* the greedy \d+ starting at position i
RECURSIVE DigitRun(_, _)
DigitRun(h, i) == IF i > Len(h) \/ ~IsDigit(h[i]) THEN <<>>
                  ELSE <<h[i]>> \o DigitRun(h, i + 1)

\* re.search(r"\?page=(\d+)", href): the positions where the pattern matches
MatchAt(h) == {i \in 1..(Len(h) - 1) : h[i] = "?page=" /\ IsDigit(h[i + 1])}


\* the first match of re.search and int(match.group(1)); <<>> when there is no match
PageOf(h) == IF MatchAt(h) = {} THEN <<>>
             ELSE LET i == CHOOSE j \in MatchAt(h) : \A k \in MatchAt(h) : j <= k
                  IN  <<ToInt(DigitRun(h, i + 1))>>

\* the list "pages" built by the loop of get_total_pages
RECURSIVE Pages(_)
Pages(anchors) == IF anchors = <<>> THEN <<>>
                  ELSE PageOf(Head(anchors)) \o Pages(Tail(anchors))

MaxOf(s) == CHOOSE m \in {s[i] : i \in DOMAIN s} : \A i \in DOMAIN s : s[i] <= m

\* WebScraper.get_total_pages: fault is an exception raised by the driver
get_total_pages(anchors, fault) ==
    IF fault THEN 1
    ELSE IF Pages(anchors) # <<>> THEN MaxOf(Pages(anchors)) ELSE 1

\* the hrefs a listing with page numbers up to maxNo may carry: all hold "?page="
\* (the selector a[href*='?page=']), followed by a number, by a number and more
\* query text, by text that is no number, or by nothing
Hrefs(maxNo) ==
    {<<"?page=">> \o Str(n) : n \in 0..maxNo}
    \cup {<<"?page=">> \o Str(n) \o <<"&sort=a">> : n \in 0..maxNo}
    \cup {<<"?page=">>, <<"?page=", "x">>, <<"/list", "?page=", "x", "&", "2">>}

\* the hrefs of a listing that renders every page number as "?page=<n>"
PlainHrefs(maxNo) == {<<"?page=">> \o Str(n) : n \in 0..maxNo}

\* the result of query_selector_all: up to MaxAnchors anchors with hrefs of the site
AnchorLists(hrefs) == UNION {[1..n -> hrefs] : n \in 0..MaxAnchors}

(* ------------------------------ the writer ----------------------------- *)
NoFile == [exists |-> FALSE, lines |-> <<>>]

HeaderLine == <<"header", 0, 0>>

\* csv.DictWriter.writerows: one line per record
RECURSIVE RowLines(_)
RowLines(data) == IF data = <<>> THEN <<>>
                  ELSE <<<<"row", Head(data)[1], Head(data)[2]>>>> \o RowLines(Tail(data))

\* the records of a file's lines, the header lines dropped
RECURSIVE FileRecords(_)
FileRecords(lines) ==
    IF lines = <<>> THEN <<>>
    ELSE (IF Head(lines)[1] = "row" THEN <<<<Head(lines)[2], Head(lines)[3]>>>> ELSE <<>>)
         \o FileRecords(Tail(lines))

\* the part of a line that reached the file when the write of it was cut short
CutLine(l) == <<"cut", l[2], l[3]>>

\* what a call of save_to_csv meets.  at: "none"; "open" (an open() raises: nothing
\* is changed); "header" (the file is open, the first write raises: nothing of it
\* reaches the file, or with cut a part of the header line does); "rows" (the header
\* is written, writerows raises after `rows` complete rows, any number short of
\* the batch, with cut after a part of the next row as well)
Fault(at, rows, cut) == [at |-> at, rows |-> rows, cut |-> cut]

NoFault == Fault("none", 0, FALSE)

Smaller(a, b) == IF a < b THEN a ELSE b

\* the faults a write of data can meet
WriteFaults(data) ==
    {Fault("open", 0, FALSE)}
    \cup {Fault("header", 0, c) : c \in BOOLEAN}
    \cup {Fault("rows", k, c) : k \in 0..(Len(data) - 1), c \in BOOLEAN}

\* what the with block of lines 119-123 has put in the file when it ends: head is
\* the header line if one is due, rows are the lines of the batch
written(head, rows, fault) ==
    CASE fault.at = "header" ->
            IF fault.cut /\ head # <<>> THEN <<CutLine(head[1])>> ELSE <<>>
      [] fault.at = "rows" ->
            LET k == Smaller(fault.rows, Len(rows) - 1)
            IN  head \o SubSeq(rows, 1, k)
                     \o (IF fault.cut THEN <<CutLine(rows[k + 1])>> ELSE <<>>)
      [] OTHER -> head \o rows

\* a writer that opens the file before it looks at the batch
save_to_csv_open_first(f, data, mode, fault) ==
    IF fault.at = "open" THEN [file |-> f, ret |-> FALSE]
    ELSE LET header == IF mode = "a" THEN ~f.exists ELSE TRUE
             base   == IF mode = "a" THEN f.lines ELSE <<>>
             head   == IF header /\ data # <<>> THEN <<HeaderLine>> ELSE <<>>
         IN  IF data = <<>>
             THEN [file |-> [exists |-> TRUE, lines |-> base], ret |-> FALSE]
             ELSE [file |-> [exists |-> TRUE,
                             lines |-> base \o written(head, RowLines(data), fault)],
                   ret |-> fault.at = "none"]

\* WebScraper.save_to_csv(data, mode) on file f, meeting fault.  The result is the
\* file afterwards and the returned value.
save_to_csv(f, data, mode, fault) ==
    IF data = <<>> THEN [file |-> f, ret |-> FALSE]
    ELSE LET header == IF mode = "a" THEN ~f.exists ELSE TRUE
             base   == IF mode = "a" THEN f.lines ELSE <<>>
             head   == IF header THEN <<HeaderLine>> ELSE <<>>
         IN  IF fault.at = "open" THEN [file |-> f, ret |-> FALSE]
             ELSE [file |-> [exists |-> TRUE,
                             lines |-> base \o written(head, RowLines(data), fault)],
                   ret |-> fault.at = "none"]

\* the mode run passes to save_to_csv: none, so the default of the signature
RunSaveMode == "w"

(* ------------------------------ the run -------------------------------- *)
\* what may fail: the acquisition of the browser, a navigation, the page count, an
\* extraction, a write (at its open, at its first write, within its rows), the
\* release of the browser
AllFaults == {"browser", "navigate", "count", "extract", "open", "header", "rows", "close"}

Outcomes(kind) == IF kind \in site.faults THEN BOOLEAN ELSE {TRUE}

\* the faults a save of the run can meet
SaveFaults(data) == {NoFault} \cup {x \in WriteFaults(data) : x.at \in site.faults}

Urls == {<<"https://x.test/list">>, <<"https://x.test/list", "?", "region=de">>}

\* the output files: the n-th scraper added to a manager writes the n-th
PathNames == <<"out1.csv", "out2.csv", "out3.csv", "out4.csv">>

Paths == {PathNames[i] : i \in DOMAIN PathNames}

\* the argument of page.goto
Goto(base, sep, p) == [base |-> base, sep |-> sep, page |-> p]

NoUrl == Goto(<<>>, "", 0)

\* scraper.py:151
page_url(url, p) == Goto(url, IF \E i \in DOMAIN url : url[i] = "?" THEN "&" ELSE "?", p)

\* one call on a collaborator: the operation, the line of run that makes it, the
\* value of the loop variable, the outcome, the records passed or returned, the URL
Ev(op, line, p, ok, data, url) ==
    [op |-> op, line |-> line, page |-> p, ok |-> ok, data |-> data, url |-> url]

Log(t, e) == [calls EXCEPT ![t] = Append(@, e)]

\* scraper.py:143-144
clamp(mp, total) == IF mp # NoMax /\ mp # 0 /\ mp < total THEN mp ELSE total

\* a save test that counts the pages from zero
save_due_zero_based(p, total) == (p - 1) % SaveEvery = 0 \/ p = total

\* scraper.py:163
save_due(p, total) == p % SaveEvery = 0 \/ p = total

\* a delay test that includes the final page
delay_due_inclusive(p, total) == p <= total

\* scraper.py:167
delay_due(p, total) == p < total

\* a run that keeps the batch of a failed save for the next save
buffer_after_save_keep_failed(ret, data) == IF ret THEN <<>> ELSE data

\* scraper.py:164-165: the value returned by save_to_csv is not read, all_data = []
buffer_after_save(ret, data) == <<>>

\* a run that forgets the save after the loop
remaining_never(data) == FALSE

\* scraper.py:171
remaining(data) == data # <<>>

\* a run that ignores the result of the first navigation
after_first_navigation_ignored(ok) == "Counting"

\* a run that returns on a failed first navigation without releasing the browser
after_first_navigation_return(ok) == IF ok THEN "Counting" ELSE "Closed"

\* scraper.py:141: where run goes after the first navigation
after_first_navigation(ok) == IF ok THEN "Counting" ELSE "Closing"

\* scraper.py:149: the loop takes the next value of range(1, total_pages + 1) or ends
loop_next(t, p) ==
    IF p < total_pages[t]
    THEN /\ page' = [page EXCEPT ![t] = p + 1]
         /\ pc' = [pc EXCEPT ![t] = "Navigate"]
    ELSE /\ page' = page
         /\ pc' = [pc EXCEPT ![t] = "AfterLoop"]


\* a failed navigation that ends the loop ("break")
on_navigation_failure_break(t, p) ==
    /\ page' = page
    /\ pc' = [pc EXCEPT ![t] = "AfterLoop"]

\* scraper.py:153-155: the warning and "continue"
on_navigation_failure(t, p) == loop_next(t, p)

\* scraper.run() has been called: directly; by run_sequential for the scraper the
\* loop of line 188 is at; by run_concurrent for every scraper (lines 192-193)
called(t) ==
    \/ mgr.mode = "direct"
    \/ mgr.mode = "sequential" /\ mgr.pc = "Running" /\ mgr.cur = t
    \/ mgr.mode = "concurrent" /\ mgr.pc \in {"Running", "Raised"}

\* the max_pages the caller passes: the manager passes none (lines 189, 192)
run_arguments == IF mgr.mode = "direct" THEN {NoMax} \cup 0..MaxArg ELSE {NoMax}

\* the resources of initialize_browser, in the order of lines 26-31
Resources == <<"playwright", "browser", "context", "page">>

NoBrowser == [r \in {Resources[i] : i \in DOMAIN Resources} |-> "none"]

\* how many of the resources the scraper has acquired
acquired(t) == Cardinality({i \in DOMAIN Resources : browser[t][Resources[i]] # "none"})

\* the browser as run sees it: nothing acquired, all acquired and open, all
\* released, or something in between
browser_state(t) ==
    IF \A i \in DOMAIN Resources : browser[t][Resources[i]] = "none" THEN "none"
    ELSE IF \A i \in DOMAIN Resources : browser[t][Resources[i]] = "open" THEN "open"
    ELSE IF \A i \in 1..3 : browser[t][Resources[i]] = "closed" THEN "closed"
    ELSE "partial"

\* run, lines 137-139 and 26-31: the call with its argument, and the next of the
\* four awaits of initialize_browser (start, launch, new_context, new_page), which
\* acquires its resource or raises.  A fault of start leaves nothing acquired, a
\* later fault leaves what was acquired before it.  It is raised out of run: no
\* handler encloses line 139.
run_initialize_browser(t) ==
    /\ pc[t] = "NotStarted"
    /\ called(t)
    /\ \E mp \in run_arguments, ok \in Outcomes("browser") :
          LET n == acquired(t) + 1
          IN  /\ max_pages' = [max_pages EXCEPT ![t] = IF n = 1 THEN mp ELSE @]
              /\ browser' = [browser EXCEPT ![t][Resources[n]] = IF ok THEN "open" ELSE @]
              /\ pc' = [pc EXCEPT ![t] = IF ~ok THEN "Raised"
                                         ELSE IF n = Len(Resources) THEN "BrowserReady"
                                         ELSE @]
              /\ calls' = IF ok /\ n < Len(Resources) THEN calls
                          ELSE Log(t, Ev("initialize_browser", 139, 0, ok, <<>>, NoUrl))
    /\ UNCHANGED <<mgr, site, target, fs, closes, total_pages, page, all_data, input, output>>

\* run, line 141: navigate_to_url() on the base URL; it returns False on any fault
run_navigate_first(t) ==
    /\ pc[t] = "BrowserReady"
    /\ \E ok \in Outcomes("navigate") :
          /\ pc' = [pc EXCEPT ![t] = after_first_navigation(ok)]
          /\ calls' = Log(t, Ev("navigate_to_url", 141, 0, ok, <<>>, Goto(target[t].url, "", 0)))
    /\ UNCHANGED <<mgr, site, target, fs, browser, closes, max_pages, total_pages, page,
                   all_data, input, output>>

\* run, lines 142-149: get_total_pages on the loaded page, the clamp, all_data = []
\* and the entry of the loop (the logged call carries the value returned)
run_get_total_pages(t) ==
    /\ pc[t] = "Counting"
    /\ \E anchors \in AnchorLists(site.hrefs), fault \in {~ok : ok \in Outcomes("count")} :
          LET total == clamp(max_pages[t], get_total_pages(anchors, fault))
          IN  /\ total_pages' = [total_pages EXCEPT ![t] = total]
              /\ page' = [page EXCEPT ![t] = IF total >= 1 THEN 1 ELSE @]
              /\ pc' = [pc EXCEPT ![t] = IF total >= 1 THEN "Extract" ELSE "AfterLoop"]
              /\ calls' = Log(t, Ev("get_total_pages", 142, get_total_pages(anchors, fault),
                                    ~fault, <<>>, NoUrl))
    /\ all_data' = [all_data EXCEPT ![t] = <<>>]
    /\ UNCHANGED <<mgr, site, target, fs, browser, closes, max_pages, input, output>>

\* run, lines 150-155: the navigation of a page after the first; on failure the
\* "continue" goes to the next value of the loop
run_navigate_page(t) ==
    /\ pc[t] = "Navigate"
    /\ \E ok \in Outcomes("navigate") :
          /\ calls' = Log(t, Ev("navigate_to_url", 152, page[t], ok, <<>>,
                                page_url(target[t].url, page[t])))
          /\ IF ok
             THEN /\ pc' = [pc EXCEPT ![t] = "Extract"]
                  /\ page' = page
             ELSE on_navigation_failure(t, page[t])
    /\ UNCHANGED <<mgr, site, target, fs, browser, closes, max_pages, total_pages, all_data,
                   input, output>>

\* run, lines 157-163: extract_data (an empty list on a fault), all_data.extend(data)
\* and the test of line 163
run_extract_data(t) ==
    /\ pc[t] = "Extract"
    /\ \E n \in site.items, ok \in Outcomes("extract") :
          LET data == IF ok THEN [i \in 1..n |-> <<page[t], i>>] ELSE <<>>
          IN  /\ all_data' = [all_data EXCEPT ![t] = @ \o data]
              /\ calls' = Log(t, Ev("extract_data", 157, page[t], ok, data, NoUrl))
    /\ pc' = [pc EXCEPT ![t] = IF save_due(page[t], total_pages[t]) THEN "Save" ELSE "Delay"]
    /\ UNCHANGED <<mgr, site, target, fs, browser, closes, max_pages, total_pages, page,
                   input, output>>

\* run, lines 164-165: the periodic save and all_data = []
run_save(t) ==
    /\ pc[t] = "Save"
    /\ \E fault \in SaveFaults(all_data[t]) :
          LET r == save_to_csv(fs[target[t].output_file], all_data[t], RunSaveMode, fault)
          IN  /\ fs' = [fs EXCEPT ![target[t].output_file] = r.file]
              /\ calls' = Log(t, Ev("save_to_csv", 164, page[t], r.ret, all_data[t], NoUrl))
              /\ all_data' = [all_data EXCEPT ![t] = buffer_after_save(r.ret, @)]
    /\ pc' = [pc EXCEPT ![t] = "Delay"]
    /\ UNCHANGED <<mgr, site, target, browser, closes, max_pages, total_pages, page, input, output>>

\* run, lines 167-168 and 149: random_delay when more pages remain (the delay drawn
\* from delay_range changes no state), then the next value of the loop
run_random_delay(t) ==
    /\ pc[t] = "Delay"
    /\ calls' = IF delay_due(page[t], total_pages[t])
                THEN Log(t, Ev("random_delay", 168, page[t], TRUE, <<>>, NoUrl))
                ELSE calls
    /\ loop_next(t, page[t])
    /\ UNCHANGED <<mgr, site, target, fs, browser, closes, max_pages, total_pages, all_data,
                   input, output>>

\* run, lines 170-172: the save of what remains; all_data is not reset
run_save_remaining(t) ==
    /\ pc[t] = "AfterLoop"
    /\ IF remaining(all_data[t])
       THEN \E fault \in SaveFaults(all_data[t]) :
               LET r == save_to_csv(fs[target[t].output_file], all_data[t], RunSaveMode, fault)
               IN  /\ fs' = [fs EXCEPT ![target[t].output_file] = r.file]
                   /\ calls' = Log(t, Ev("save_to_csv", 172, page[t], r.ret, all_data[t], NoUrl))
       ELSE UNCHANGED <<fs, calls>>
    /\ pc' = [pc EXCEPT ![t] = "Closing"]
    /\ UNCHANGED <<mgr, site, target, browser, closes, max_pages, total_pages, page, all_data,
                   input, output>>

\* run, line 174, and close, lines 131-135: the next of the three awaits of close
\* (context.close, which closes the page too, browser.close, playwright.stop),
\* which releases its resource or raises.  A fault is raised out of close and out
\* of run, neither has a handler; what was not yet released stays open.
run_close(t) ==
    /\ pc[t] = "Closing"
    /\ \E ok \in Outcomes("close") :
          LET n == CHOOSE i \in {3, 2, 1} :
                       /\ browser[t][Resources[i]] = "open"
                       /\ \A j \in (i + 1)..3 : browser[t][Resources[j]] # "open"
          IN  /\ browser' = [browser EXCEPT ![t] =
                                IF ~ok THEN @
                                ELSE IF n = 3 THEN [@ EXCEPT !.context = "closed", !.page = "closed"]
                                ELSE [@ EXCEPT ![Resources[n]] = "closed"]]
              /\ pc' = [pc EXCEPT ![t] = IF ~ok THEN "Raised"
                                         ELSE IF n = 1 THEN "Closed" ELSE @]
              /\ closes' = [closes EXCEPT ![t] = IF ok /\ n = 1 THEN @ + 1 ELSE @]
              /\ calls' = IF ok /\ n = 1 THEN Log(t, Ev("close", 174, 0, TRUE, <<>>, NoUrl))
                          ELSE calls
    /\ UNCHANGED <<mgr, site, target, fs, max_pages, total_pages, page, all_data, input, output>>

(* --------------------------- specifications ---------------------------- *)
\* one scraper, constructed, on a site whose collaborators may fail in the given ways
InitRun(cfg) ==
    /\ mgr = Direct
    /\ site = cfg
    /\ target \in [{1} -> [url : Urls, output_file : {"out1.csv"}]]
    /\ fs = [p \in Paths |-> NoFile]
    /\ pc = [t \in {1} |-> "NotStarted"]
    /\ browser = [t \in {1} |-> NoBrowser]
    /\ closes = [t \in {1} |-> 0]
    /\ max_pages = [t \in {1} |-> NoMax]
    /\ total_pages = [t \in {1} |-> 0]
    /\ page = [t \in {1} |-> 0]
    /\ all_data = [t \in {1} |-> <<>>]
    /\ calls = [t \in {1} |-> <<>>]
    /\ input = <<>>
    /\ output = <<>>

\* every page lists MaxItems items; a failed extraction returns none
Init == InitRun([hrefs |-> Hrefs(MaxPageNo), faults |-> AllFaults, items |-> {MaxItems}])

Next ==
    \/ \E t \in Scrapers : run_initialize_browser(t)
    \/ \E t \in Scrapers : run_navigate_first(t)
    \/ \E t \in Scrapers : run_get_total_pages(t)
    \/ \E t \in Scrapers : run_navigate_page(t)
    \/ \E t \in Scrapers : run_extract_data(t)
    \/ \E t \in Scrapers : run_save(t)
    \/ \E t \in Scrapers : run_random_delay(t)
    \/ \E t \in Scrapers : run_save_remaining(t)
    \/ \E t \in Scrapers : run_close(t)

Spec == Init /\ [][Next]_vars


\* the event loop resumes a coroutine whose awaited call has returned: navigation
\* has a timeout and the delay is finite, so a run that can take a step takes it
\* (a failed write is one that fails at its open: run does not read the file)
InitFair == InitRun([hrefs |-> Hrefs(MaxPageNo), faults |-> AllFaults \ {"header", "rows"},
                     items |-> {MaxItems}])

FairSpec == InitFair /\ [][Next]_vars /\ WF_vars(Next)

\* the flush-cadence scenario of the specification: no navigation or extraction
\* fault, every page listing the same number of items, up to CadencePages pages
InitCadence ==
    \E n \in 0..CadenceItems :
        InitRun([hrefs |-> PlainHrefs(CadencePages), faults |-> {"count", "open", "rows"},
                 items |-> {n}])

SpecCadence == InitCadence /\ [][Next]_vars

\* the page counter as a function: an input is drawn, the function is applied
InitPages ==
    /\ mgr = Direct
    /\ site = [hrefs |-> Hrefs(MaxPageNo), faults |-> AllFaults, items |-> {0, MaxItems}]
    /\ target = <<>>
    /\ fs = [p \in Paths |-> NoFile]
    /\ pc = <<>>
    /\ browser = <<>>
    /\ closes = <<>>
    /\ max_pages = <<>>
    /\ total_pages = <<>>
    /\ page = <<>>
    /\ all_data = <<>>
    /\ calls = <<>>
    /\ input \in [anchors : AnchorLists(site.hrefs), fault : BOOLEAN]
    /\ output = <<>>

apply_get_total_pages ==
    /\ output = <<>>
    /\ output' = <<get_total_pages(input.anchors, input.fault)>>
    /\ UNCHANGED <<mgr, site, target, fs, pc, browser, closes, max_pages, total_pages, page,
                   all_data, calls, input>>

NextPages == apply_get_total_pages

SpecPages == InitPages /\ [][NextPages]_vars

(* ------------------------- reading the call log ------------------------ *)
CallsOf(t, op) == SelectSeq(calls[t], LAMBDA e : e.op = op)

RECURSIVE DataOf(_)
DataOf(evs) == IF evs = <<>> THEN <<>> ELSE Head(evs).data \o DataOf(Tail(evs))

\* every record the extractor has returned, in order
Extracted(t) == DataOf(CallsOf(t, "extract_data"))

\* the records the extractor returned for the pages lo..hi, in order
ExtractedIn(t, lo, hi) ==
    DataOf(SelectSeq(calls[t], LAMBDA e : e.op = "extract_data" /\ e.page \in lo..hi))

Saves(t) == CallsOf(t, "save_to_csv")

Delays(t) == CallsOf(t, "random_delay")

\* the navigations of the pages after the first
PageNavs(t) == SelectSeq(calls[t], LAMBDA e : e.op = "navigate_to_url" /\ e.line = 152)

FirstNav(t, ok) ==
    \E i \in DOMAIN calls[t] :
        calls[t][i].op = "navigate_to_url" /\ calls[t][i].line = 141 /\ calls[t][i].ok = ok

NavFailed(t, p) == \E i \in DOMAIN PageNavs(t) : PageNavs(t)[i].page = p /\ ~PageNavs(t)[i].ok

NoNavFailed(t) == \A i \in DOMAIN PageNavs(t) : PageNavs(t)[i].ok

\* no write fault: every save of a non-empty batch returned True
NoWriteFailed(t) == \A i \in DOMAIN Saves(t) : Saves(t)[i].data # <<>> => Saves(t)[i].ok

Occurrences(r, s) == Cardinality({i \in DOMAIN s : s[i] = r})

Done(t) == pc[t] = "Closed" /\ FirstNav(t, TRUE)

\* run was ended by a fault of close itself: raised after the page was acquired
CloseRaised(t) == pc[t] = "Raised" /\ browser[t].page # "none"


(* ------------------------------- claims -------------------------------- *)

\* C1: once a run whose first navigation succeeded and whose writes all succeeded
\* is Closed, the output file holds every record extracted, in page order.
C1_FileHoldsEveryRecord ==
    \A t \in Scrapers :
        (Done(t) /\ NoWriteFailed(t))
            => FileRecords(fs[target[t].output_file].lines) = Extracted(t)

\* the j-th page at which the cadence of the specification flushes, of N pages
FlushPage(j, N) == IF 5 * j <= N THEN 5 * j ELSE N

FlushCount(N) == Cardinality({k \in 1..N : k % 5 = 0 \/ k = N})

\* C2: without navigation failures and with total_pages = N, the writer is called
\* from the loop exactly at the pages k with k mod 5 = 0 or k = N, each time with
\* the records extracted since the previous call, in order; for N = 12 and 4
\* records a page these are 3 calls, at pages 5, 10 and 12, of 20, 20 and 8 records.
C2_FlushCadence ==
    \A t \in Scrapers :
        (Done(t) /\ NoNavFailed(t)) =>
            LET N == total_pages[t]
                S == Saves(t)
            IN  /\ Len(S) = FlushCount(N)
                /\ \A j \in DOMAIN S :
                      /\ S[j].line = 164
                      /\ S[j].page = FlushPage(j, N)
                      /\ S[j].data = ExtractedIn(t, (IF j = 1 THEN 0 ELSE FlushPage(j - 1, N)) + 1,
                                                 FlushPage(j, N))
                /\ (N = 12 /\ site.items = {4}) =>
                      /\ Len(S) = 3
                      /\ <<S[1].page, S[2].page, S[3].page>> = <<5, 10, 12>>
                      /\ <<Len(S[1].data), Len(S[2].data), Len(S[3].data)>> = <<20, 20, 8>>

C2_Witness ==
    \E t \in Scrapers :
        /\ Done(t) /\ NoNavFailed(t)
        /\ total_pages[t] = 12 /\ site.items = {4}
        /\ Len(Saves(t)) = 3
        /\ Len(Extracted(t)) = 48

\* C3: whatever navigations of the pages 2..total_pages fail, once the run is Closed
\* every record the extractor returned has been passed to the writer in exactly one
\* call, and the buffer holds nothing that was not passed.
C3_EveryRecordSavedOnce ==
    \A t \in Scrapers :
        Done(t) =>
            /\ \A i \in DOMAIN Extracted(t) :
                  Cardinality({j \in DOMAIN Saves(t) :
                                  Occurrences(Extracted(t)[i], Saves(t)[j].data) = 1}) = 1
            /\ \A i \in DOMAIN Extracted(t) :
                  \A j \in DOMAIN Saves(t) : Occurrences(Extracted(t)[i], Saves(t)[j].data) <= 1
            /\ DataOf(Saves(t)) = Extracted(t)
            /\ \A i \in DOMAIN all_data[t] :
                  \E j \in DOMAIN Saves(t) : Occurrences(all_data[t][i], Saves(t)[j].data) = 1

\* the navigation of page 5 and that of the final page failed with records pending
C3_Witness ==
    \E t \in Scrapers :
        /\ Done(t)
        /\ total_pages[t] = 6
        /\ NavFailed(t, 5) /\ NavFailed(t, 6)
        /\ Len(Extracted(t)) = 4 * MaxItems
        /\ \E j \in DOMAIN Saves(t) : Saves(t)[j].line = 172

\* C4: after a failed first navigation the page counter, the extractor, the writer
\* and the delay are never called, no page is navigated, the output file is
\* untouched and the run goes to the release of the browser (where it stays, is
\* Closed, or was ended by a fault of close itself).
C4_FailedFirstNavigation ==
    \A t \in Scrapers :
        FirstNav(t, FALSE) =>
            /\ pc[t] \in {"Closing", "Closed"} \/ CloseRaised(t)
            /\ \A i \in DOMAIN calls[t] :
                  calls[t][i].op \notin {"get_total_pages", "extract_data", "save_to_csv",
                                         "random_delay"}
            /\ PageNavs(t) = <<>>
            /\ fs[target[t].output_file] = NoFile
            /\ Len(calls[t]) <= 3

C4_Witness ==
    \E t \in Scrapers : FirstNav(t, FALSE) /\ pc[t] = "Closed" /\ browser_state(t) = "closed"

\* C5: a run that has acquired the browser reaches Closed and has released the
\* browser exactly once, whatever navigations, extractions, page counts and writes
\* fail (the release itself not failing: a fault of close ends the run).
C5_BrowserReleased ==
    \A t \in 1..MaxScrapers :
        /\ [](t \in Scrapers => closes[t] <= 1)
        /\ (t \in Scrapers /\ browser_state(t) = "open")
              ~> (t \in Scrapers /\
                    \/ pc[t] = "Closed" /\ browser_state(t) = "closed" /\ closes[t] = 1
                    \/ CloseRaised(t))

\* a Closed run in which a navigation, an extraction and a write failed (a failed
\* page count leaves one page, so no navigation after it)
C5_Witness ==
    \E t \in Scrapers :
        /\ pc[t] = "Closed" /\ closes[t] = 1 /\ browser_state(t) = "closed"
        /\ \A op \in {"navigate_to_url", "extract_data"} :
              \E i \in DOMAIN calls[t] : calls[t][i].op = op /\ ~calls[t][i].ok
        /\ ~NoWriteFailed(t)

\* C6: a failure to acquire the browser is not raised out of run: the run goes on
\* to the release of the resource and returns.
C6_AcquireFailureNotRaised ==
    \A t \in Scrapers :
        (\E i \in DOMAIN calls[t] : calls[t][i].op = "initialize_browser" /\ ~calls[t][i].ok)
            => pc[t] \in {"Closing", "Closed"}

\* C7: a navigation failure on page k skips that page only: page k is not extracted,
\* each of the pages 2..total_pages is navigated exactly once, at its own URL, in order.
C7_SkipOnlyThatPage ==
    \A t \in Scrapers :
        Done(t) =>
            LET N == PageNavs(t)
            IN  /\ Len(N) = (IF total_pages[t] >= 1 THEN total_pages[t] - 1 ELSE 0)
                /\ \A i \in DOMAIN N :
                      /\ N[i].page = i + 1
                      /\ N[i].url.base = target[t].url /\ N[i].url.page = i + 1
                      /\ ~N[i].ok =>
                            \A j \in DOMAIN calls[t] :
                                calls[t][j].op = "extract_data" => calls[t][j].page # i + 1
                      /\ N[i].ok =>
                            Cardinality({j \in DOMAIN calls[t] :
                                calls[t][j].op = "extract_data" /\ calls[t][j].page = i + 1}) = 1
                /\ \A i, j \in DOMAIN N : i # j => N[i].url # N[j].url

\* the navigation of page 2 failed and the pages up to the sixth were attempted
C7_Witness ==
    \E t \in Scrapers :
        /\ Done(t) /\ total_pages[t] = 6
        /\ NavFailed(t, 2) /\ ~NavFailed(t, 3) /\ NavFailed(t, 5)
        /\ Len(PageNavs(t)) = 5

\* C8: after every page k < total_pages, extracted or skipped, exactly one delay occurs.
C8_DelayAfterEveryPage ==
    \A t \in Scrapers :
        Done(t) =>
            \A k \in 1..(total_pages[t] - 1) :
                Cardinality({i \in DOMAIN Delays(t) : Delays(t)[i].page = k}) = 1

\* C9: no delay is made once the final page has been attempted, and none when
\* total_pages = 1.
C9_NoDelayAfterFinalPage ==
    \A t \in Scrapers :
        \A i \in DOMAIN calls[t] :
            calls[t][i].op = "random_delay" =>
                /\ calls[t][i].page < total_pages[t]
                /\ total_pages[t] # 1
                /\ \A j \in 1..i :
                      calls[t][j].op \in {"navigate_to_url", "extract_data", "save_to_csv"}
                          => calls[t][j].page # total_pages[t]

\* a Closed run of several pages: delays were made, the final page was attempted
C9_Witness ==
    \E t \in Scrapers :
        /\ Done(t) /\ total_pages[t] = 3
        /\ Len(Delays(t)) = 2
        /\ \E j \in DOMAIN calls[t] : calls[t][j].op = "extract_data" /\ calls[t][j].page = 3

\* C10: the page counter returns an integer >= 1: the largest page number parsed
\* from the anchors, or 1 when no anchor matches or the extraction fails.
C10_TotalPagesAtLeastOne ==
    output # <<>> =>
        /\ output[1] >= 1
        /\ output[1] = (IF input.fault \/ Pages(input.anchors) = <<>> THEN 1
                        ELSE MaxOf(Pages(input.anchors)))


(* ----------------------- the writer as a function ---------------------- *)
\* the file is absent, or present and empty (created by another program, or left
\* by a writer that failed before its first line)
EmptyFile == [exists |-> TRUE, lines |-> <<>>]

\* the batches passed: none, or the first n records of a page
CsvBatches == {[i \in 1..n |-> <<1, i>>] : n \in 0..MaxItems}

CsvFaults(data) == {NoFault} \cup WriteFaults(data)

InitCsv ==
    /\ mgr = Direct
    /\ site = [hrefs |-> {}, faults |-> {"open", "header", "rows"}, items |-> {0, MaxItems}]
    /\ target = <<>>
    /\ fs \in [Paths -> {NoFile, EmptyFile}]
    /\ fs["out2.csv"] = NoFile
    /\ pc = <<>>
    /\ browser = <<>>
    /\ closes = <<>>
    /\ max_pages = <<>>
    /\ total_pages = <<>>
    /\ page = <<>>
    /\ all_data = <<>>
    /\ calls = <<>>
    /\ input = [n |-> 0, before |-> NoFile, data |-> <<>>, mode |-> "", fault |-> NoFault]
    /\ output = <<>>

\* one call save_to_csv(data, mode) on out1.csv: input keeps the arguments and the
\* file as it was, output the value returned
apply_save_to_csv ==
    /\ input.n < MaxFlushes
    /\ \E data \in CsvBatches, mode \in {"w", "a"} : \E fault \in CsvFaults(data) :
          LET r == save_to_csv(fs["out1.csv"], data, mode, fault)
          IN  /\ fs' = [fs EXCEPT !["out1.csv"] = r.file]
              /\ input' = [n |-> input.n + 1, before |-> fs["out1.csv"], data |-> data,
                           mode |-> mode, fault |-> fault]
              /\ output' = <<r.ret>>
    /\ UNCHANGED <<mgr, site, target, pc, browser, closes, max_pages, total_pages, page,
                   all_data, calls>>

NextCsv == apply_save_to_csv

SpecCsv == InitCsv /\ [][NextCsv]_vars

HeaderCount(lines) == Cardinality({i \in DOMAIN lines : lines[i] = HeaderLine})

\* C11: a flush in append mode of a non-empty batch writes the header row exactly
\* when the destination has no content yet.
C11_AppendHeaderIffNoContent ==
    (input.n >= 1 /\ input.mode = "a" /\ input.data # <<>> /\ input.fault = NoFault) =>
        /\ output = <<TRUE>>
        /\ (HeaderCount(fs["out1.csv"].lines) = HeaderCount(input.before.lines) + 1)
              <=> (input.before.lines = <<>>)
        /\ FileRecords(fs["out1.csv"].lines)
              = FileRecords(input.before.lines) \o input.data

\* C12: a flush of an empty batch, in either mode, returns False and leaves the
\* output file as it was: not created, not truncated, no header written.
C12_EmptyBatchNoOp ==
    (input.n >= 1 /\ input.data = <<>>) =>
        /\ output = <<FALSE>>
        /\ fs["out1.csv"] = input.before

\* an empty batch passed in create-or-overwrite mode to a file that holds rows
C12_Witness ==
    /\ input.n >= 1 /\ input.data = <<>> /\ input.mode = "w" /\ input.fault = NoFault
    /\ input.before.exists /\ Len(input.before.lines) >= 2
    /\ fs["out1.csv"] = input.before


(* --------------------- the run: batching and clamping ------------------ *)
\* the pages the run has attempted: navigated, or extracted (page 1)
Attempted(t) ==
    {calls[t][i].page : i \in {j \in DOMAIN calls[t] :
         \/ calls[t][j].op = "extract_data"
         \/ calls[t][j].op = "navigate_to_url" /\ calls[t][j].line = 152}}

\* the value get_total_pages returned to the run
Discovered(t) == CallsOf(t, "get_total_pages")[1].page

\* C15: when a page is attempted, the buffer holds no record of a page at or before
\* the last multiple of 5 passed, whatever navigations failed.
C15_FlushedEveryFivePages ==
    \A t \in Scrapers :
        pc[t] \in {"Navigate", "Extract"} =>
            \A i \in DOMAIN all_data[t] :
                (all_data[t][i][1] - 1) \div 5 = (page[t] - 1) \div 5

\* C16: a run called with max_pages attempts min(discovered total, max_pages) pages,
\* never more than max_pages; a run called without attempts the discovered total.
C16_ClampedToMaxPages ==
    \A t \in Scrapers :
        Done(t) =>
            LET d == Discovered(t)
                n == Cardinality(Attempted(t))
            IN  IF max_pages[t] = NoMax THEN n = d
                ELSE n = (IF d < max_pages[t] THEN d ELSE max_pages[t]) /\ n <= max_pages[t]

\* the periodic saves of non-empty batches that failed
FailedSaves(t) ==
    {j \in DOMAIN Saves(t) :
        Saves(t)[j].line = 164 /\ ~Saves(t)[j].ok /\ Saves(t)[j].data # <<>>}

Shared(a, b) == {a[i] : i \in DOMAIN a} \cap {b[i] : i \in DOMAIN b}

\* C18: a failed periodic save is not raised; the buffer is emptied, the records of
\* the failed batch are never passed to the writer again, the remaining pages are
\* attempted and the run reaches Closed (or is ended by a fault of close itself).
C18_WriteFaultNotFatalNotRetried ==
    \A t \in 1..MaxScrapers :
        /\ [](t \in Scrapers =>
                \A j \in FailedSaves(t) :
                    /\ pc[t] = "Raised" => CloseRaised(t)
                    /\ Shared(Saves(t)[j].data, all_data[t]) = {}
                    /\ \A k \in DOMAIN Saves(t) :
                          k # j => Shared(Saves(t)[j].data, Saves(t)[k].data) = {})
        /\ (t \in Scrapers /\ FailedSaves(t) # {})
              ~> (t \in Scrapers /\ (pc[t] = "Closed" \/ CloseRaised(t))
                                  /\ Attempted(t) = 1..total_pages[t])

\* the save of page 5 failed, page 6 was extracted and saved, the run is Closed
C18_Witness ==
    \E t \in Scrapers :
        /\ Done(t) /\ total_pages[t] = 6
        /\ \E j \in FailedSaves(t) : Saves(t)[j].page = 5 /\ Len(Saves(t)[j].data) >= MaxItems
        /\ \E k \in DOMAIN Saves(t) : Saves(t)[k].page = 6 /\ Saves(t)[k].ok


(* ----------------------------- the manager ----------------------------- *)
\* ScraperManager after add_scraper has been called once per target, each target
\* with its own output file; run has not been called
InitManager ==
    /\ mgr = [mode |-> "unset", pc |-> "Idle", cur |-> 0]
    /\ site = [hrefs |-> PlainHrefs(ManagerPages), faults |-> {"browser", "navigate"},
               items |-> {MaxItems}]
    /\ \E n \in 1..MaxScrapers :
          /\ target = [t \in 1..n |-> [url |-> <<"https://x.test/list">>,
                                       output_file |-> PathNames[t]]]
          /\ pc = [t \in 1..n |-> "NotStarted"]
          /\ browser = [t \in 1..n |-> NoBrowser]
          /\ closes = [t \in 1..n |-> 0]
          /\ max_pages = [t \in 1..n |-> NoMax]
          /\ total_pages = [t \in 1..n |-> 0]
          /\ page = [t \in 1..n |-> 0]
          /\ all_data = [t \in 1..n |-> <<>>]
          /\ calls = [t \in 1..n |-> <<>>]
    /\ fs = [p \in Paths |-> NoFile]
    /\ input = <<>>
    /\ output = <<>>

\* ScraperManager.run, lines 195-199: asyncio.run of run_concurrent or run_sequential;
\* run_sequential calls the run of the first scraper, run_concurrent gathers them all
manager_run ==
    /\ mgr.mode = "unset"
    /\ \E concurrent \in BOOLEAN :
          mgr' = [mode |-> IF concurrent THEN "concurrent" ELSE "sequential",
                  pc |-> "Running", cur |-> 1]
    /\ UNCHANGED <<site, target, fs, pc, browser, closes, max_pages, total_pages, page,
                   all_data, calls, input, output>>

\* run_sequential, lines 188-189: the awaited run has returned; the loop goes to the
\* next scraper or ends
run_sequential_next ==
    /\ mgr.mode = "sequential" /\ mgr.pc = "Running"
    /\ pc[mgr.cur] = "Closed"
    /\ mgr' = IF mgr.cur < Len(pc) THEN [mgr EXCEPT !.cur = @ + 1]
              ELSE [mgr EXCEPT !.pc = "Returned"]
    /\ UNCHANGED <<site, target, fs, pc, browser, closes, max_pages, total_pages, page,
                   all_data, calls, input, output>>

\* run_sequential, line 189: the awaited run has raised; nothing catches it, the
\* exception leaves the loop, run_sequential and asyncio.run
run_sequential_raise ==
    /\ mgr.mode = "sequential" /\ mgr.pc = "Running"
    /\ pc[mgr.cur] = "Raised"
    /\ mgr' = [mgr EXCEPT !.pc = "Raised"]
    /\ UNCHANGED <<site, target, fs, pc, browser, closes, max_pages, total_pages, page,
                   all_data, calls, input, output>>

\* run_concurrent, line 193: every gathered run has returned
run_concurrent_return ==
    /\ mgr.mode = "concurrent" /\ mgr.pc = "Running"
    /\ \A t \in Scrapers : pc[t] = "Closed"
    /\ mgr' = [mgr EXCEPT !.pc = "Returned"]
    /\ UNCHANGED <<site, target, fs, pc, browser, closes, max_pages, total_pages, page,
                   all_data, calls, input, output>>

\* run_concurrent, line 193: asyncio.gather without return_exceptions passes the
\* first exception of a run to its awaiter at once; it leaves run_concurrent and
\* the coroutine of asyncio.run (line 197)
run_concurrent_raise ==
    /\ mgr.mode = "concurrent" /\ mgr.pc = "Running"
    /\ \E t \in Scrapers : pc[t] = "Raised"
    /\ mgr' = [mgr EXCEPT !.pc = "Raised"]
    /\ UNCHANGED <<site, target, fs, pc, browser, closes, max_pages, total_pages, page,
                   all_data, calls, input, output>>

\* the run is suspended in an await of lines 139-174: initialize_browser,
\* navigate_to_url, get_total_pages, extract_data, random_delay or close; the saves
\* of lines 164 and 172 are not awaited
at_await(t) ==
    \/ pc[t] \in {"NotStarted", "BrowserReady", "Counting", "Navigate", "Extract", "Closing"}
    \/ pc[t] = "Delay" /\ delay_due(page[t], total_pages[t])

\* line 197: asyncio.run, its coroutine ended, cancels the tasks that remain: the
\* run gets CancelledError at the call it awaits; no handler of run catches it and
\* close is not reached
run_cancelled(t) ==
    /\ mgr.mode = "concurrent" /\ mgr.pc = "Raised"
    /\ at_await(t)
    /\ pc' = [pc EXCEPT ![t] = "Cancelled"]
    /\ UNCHANGED <<mgr, site, target, fs, browser, closes, max_pages, total_pages, page,
                   all_data, calls, input, output>>

NextManager ==
    \/ manager_run
    \/ run_sequential_next
    \/ run_sequential_raise
    \/ run_concurrent_return
    \/ run_concurrent_raise
    \/ \E t \in Scrapers : run_cancelled(t)
    \/ \E t \in Scrapers : run_initialize_browser(t)
    \/ \E t \in Scrapers : run_navigate_first(t)
    \/ \E t \in Scrapers : run_get_total_pages(t)
    \/ \E t \in Scrapers : run_navigate_page(t)
    \/ \E t \in Scrapers : run_extract_data(t)
    \/ \E t \in Scrapers : run_save(t)
    \/ \E t \in Scrapers : run_random_delay(t)
    \/ \E t \in Scrapers : run_save_remaining(t)
    \/ \E t \in Scrapers : run_close(t)

SpecManager == InitManager /\ [][NextManager]_vars


\* the manager's run has ended, by return or by exception
ManagerEnded == mgr.pc \in {"Returned", "Raised"}

\* the harvest has finished: it reached Closed, or ended with a fault of its own
Finished(t) == pc[t] \in {"Closed", "Raised"}

\* C13: run_sequential starts the harvest of every registered target, in order of
\* registration and only after the previous one has finished, also when an earlier
\* target failed (a failed navigation, or a fault raised out of its run).
C13_SequentialIsolatesFailures ==
    mgr.mode = "sequential" =>
        /\ \A t \in Scrapers :
              (t > 1 /\ pc[t] # "NotStarted") => Finished(t - 1)
        /\ ManagerEnded => \A t \in Scrapers : calls[t] # <<>>

\* C14: run_concurrent ends only after every harvest has finished (each has
\* reached Closed or ended with a fault of its own): it never ends while a
\* sibling harvest is still running.
C14_ConcurrentWaitsForAll ==
    (mgr.mode = "concurrent" /\ ManagerEnded) =>
        \A t \in Scrapers : Finished(t)

\* the files a sequence of writer calls of the run may leave, each call rewriting
\* the file or failing as its returned value says
RECURSIVE FilesAfter(_, _)
FilesAfter(files, saves) ==
    IF saves = <<>> THEN files
    ELSE LET e == Head(saves)
             met == {x \in {NoFault} \cup WriteFaults(e.data) : (x = NoFault) = e.ok}
         IN  FilesAfter({save_to_csv(f, e.data, RunSaveMode, x).file : f \in files, x \in met},
                        Tail(saves))

\* what the writer sees of a harvest that ran alone: every extracted record has
\* been passed to it, in order, and the output file is what its calls leave
AsAlone(t) ==
    /\ DataOf(Saves(t)) = Extracted(t)
    /\ fs[target[t].output_file] \in FilesAfter({NoFile}, Saves(t))

\* C17: in concurrent mode with pairwise distinct output files, once the manager
\* has ended and no harvest is running, the writer calls and the output file of
\* every target are those of a harvest that ran alone.
C17_ConcurrentNoInterference ==
    ( /\ mgr.mode = "concurrent"
      /\ ManagerEnded
      /\ \A t, u \in Scrapers : t # u => target[t].output_file # target[u].output_file
      /\ \A t \in Scrapers : pc[t] \in {"Closed", "Raised", "Cancelled"} )
        => \A t \in Scrapers : AsAlone(t)

====
